---- MODULE Spec2Model ----
\* A model of health_insurance.py: the Plan cost model (Plan.__init__,
\* get_premium, get_tax_savings, get_expenses, get_actual_cost, __call__),
\* the row constructor Plan.from_csv with parse_float, and the main loop that
\* evaluates every plan over range(medical_bills) and hands one series per
\* plan to the plotting library.
\*
\* Numbers.  Python computes with ints and floats.  The model computes with
\* exact rationals <<n, d>> (d > 0, lowest terms).  Every fraction of the
\* model's grids is dyadic (1/2, 1/4) and every amount is small, so float
\* arithmetic on them is exact and agrees with the rationals; the one
\* non-dyadic value, the coinsurance 0.20 of the documented example plan, is
\* only used at bill totals where the float results are exact as well
\* (4800, 6800.0, 12800.0).
EXTENDS Integers, Sequences, FiniteSets, TLC

VARIABLES pc, rows, args, plans, series, err, last, prev

vars == <<pc, rows, args, plans, series, err, last, prev>>

-----------------------------------------------------------------------------
\* Bounds of the model.

\* Bill totals 0..MaxBill are passed to the cost model by the library caller.
MaxBill == 3
\* The rows of the input table: 0..MaxRows rows.
MaxRows == 2
\* The command line's medical_bills ranges over -1..MaxMedicalBills.
MaxMedicalBills == 3

-----------------------------------------------------------------------------
\* Exact rational arithmetic standing for Python's numeric operators.

Abs(n) == IF n < 0 THEN -n ELSE n

RECURSIVE Gcd(_, _)
Gcd(a, b) == IF b = 0 THEN a ELSE Gcd(b, a % b)

\* n/d in lowest terms, d > 0.
Norm(n, d) == LET g == Gcd(Abs(n), d) IN <<n \div g, d \div g>>

\* A Python int as a number.
I(k) == <<k, 1>>

Add(a, b) == Norm(a[1] * b[2] + b[1] * a[2], a[2] * b[2])
Sub(a, b) == Norm(a[1] * b[2] - b[1] * a[2], a[2] * b[2])
Mul(a, b) == Norm(a[1] * b[1], a[2] * b[2])
Lt(a, b) == a[1] * b[2] < b[1] * a[2]
Gt(a, b) == Lt(b, a)
Le(a, b) == ~Lt(b, a)

-----------------------------------------------------------------------------
\* class Plan

\* Plan.__init__: stores its eight arguments, nothing else.
Plan__init__(monthly_premium, deductible, out_of_pocket_max, coinsurance, employer_hsa_contribution, employee_hsa_contribution, copay, name) ==
    [monthly_premium |-> monthly_premium,
     deductible |-> deductible,
     out_of_pocket_max |-> out_of_pocket_max,
     coinsurance |-> coinsurance,
     employer_hsa_contribution |-> employer_hsa_contribution,
     employee_hsa_contribution |-> employee_hsa_contribution,
     copay |-> copay,
     name |-> name]

\* Mutant: the premium of one month, whatever the coverage period.
get_premium_one_month(self, months) == self.monthly_premium

get_premium(self, months) == Mul(self.monthly_premium, months)

get_tax_savings(self, tax_bracket) == Mul(self.employee_hsa_contribution, tax_bracket)

\* Mutant: the deductible test is <= instead of <.
get_expenses_le(self, total_expenses, visits) ==
    LET copays == Mul(visits, self.copay)
    IN  IF Le(Add(copays, total_expenses), self.deductible)
        THEN Add(copays, total_expenses)
        ELSE LET expenses == Add(Add(copays, self.deductible),
                                 Mul(Sub(Sub(total_expenses, copays), self.deductible),
                                     self.coinsurance))
             IN  IF Gt(expenses, self.out_of_pocket_max)
                 THEN self.out_of_pocket_max
                 ELSE expenses

\* Mutant: coinsurance is applied to the bills below the deductible too.
get_expenses_coinsured_below(self, total_expenses, visits) ==
    LET copays == Mul(visits, self.copay)
    IN  IF Lt(Add(copays, total_expenses), self.deductible)
        THEN Add(copays, Mul(total_expenses, self.coinsurance))
        ELSE LET expenses == Add(Add(copays, self.deductible),
                                 Mul(Sub(Sub(total_expenses, copays), self.deductible),
                                     self.coinsurance))
             IN  IF Gt(expenses, self.out_of_pocket_max)
                 THEN self.out_of_pocket_max
                 ELSE expenses

\* Mutant: the clamp to out_of_pocket_max is left out.
get_expenses_no_clamp(self, total_expenses, visits) ==
    LET copays == Mul(visits, self.copay)
    IN  IF Lt(Add(copays, total_expenses), self.deductible)
        THEN Add(copays, total_expenses)
        ELSE Add(Add(copays, self.deductible),
                 Mul(Sub(Sub(total_expenses, copays), self.deductible),
                     self.coinsurance))

get_expenses(self, total_expenses, visits) ==
    LET copays == Mul(visits, self.copay)
    IN  IF Lt(Add(copays, total_expenses), self.deductible)
        THEN Add(copays, total_expenses)
        ELSE LET expenses == Add(Add(copays, self.deductible),
                                 Mul(Sub(Sub(total_expenses, copays), self.deductible),
                                     self.coinsurance))
             IN  IF Gt(expenses, self.out_of_pocket_max)
                 THEN self.out_of_pocket_max
                 ELSE expenses

\* Mutant: the employer's HSA contribution is added instead of subtracted.
get_actual_cost_adds_employer(self, total_expenses, months, visits, tax_bracket) ==
    Sub(Add(Add(get_premium(self, months), get_expenses(self, total_expenses, visits)),
            self.employer_hsa_contribution),
        get_tax_savings(self, tax_bracket))

get_actual_cost(self, total_expenses, months, visits, tax_bracket) ==
    Sub(Sub(Add(get_premium(self, months), get_expenses(self, total_expenses, visits)),
            self.employer_hsa_contribution),
        get_tax_savings(self, tax_bracket))

\* Plan.__call__(*args, **kwargs) forwards to get_actual_cost.
Plan__call__(self, total_expenses, months, visits, tax_bracket) ==
    get_actual_cost(self, total_expenses, months, visits, tax_bracket)

-----------------------------------------------------------------------------
\* parse_float and Plan.from_csv

\* A cell of a row as csv.DictReader hands it over: a str, or None when the
\* row is shorter than the header (present = FALSE).  A str is the sequence
\* of its characters.
None == [present |-> FALSE, text |-> <<>>]
Str(text) == [present |-> TRUE, text |-> text]

Digits == <<"0", "1", "2", "3", "4", "5", "6", "7", "8", "9">>
IsDigit(c) == \E k \in 1..10 : Digits[k] = c
DigitVal(c) == (CHOOSE k \in 1..10 : Digits[k] = c) - 1

RECURSIVE Pow10(_)
Pow10(n) == IF n = 0 THEN 1 ELSE 10 * Pow10(n - 1)

\* The value of the decimal digits of s read left to right, "." skipped.
RECURSIVE DigitsValue(_, _)
DigitsValue(s, acc) ==
    IF s = <<>> THEN acc
    ELSE IF Head(s) = "." THEN DigitsValue(Tail(s), acc)
    ELSE DigitsValue(Tail(s), 10 * acc + DigitVal(Head(s)))

\* A value or a raised exception.
Return(v) == [ok |-> TRUE, value |-> v, error |-> "none"]
Raise(e) == [ok |-> FALSE, value |-> I(0), error |-> e]

\* float(s) on the decimal literals [-]digits[.digits]; any other text of the
\* model's alphabet raises ValueError.
float(text) ==
    LET neg == text # <<>> /\ Head(text) = "-"
        body == IF neg THEN Tail(text) ELSE text
        dots == {k \in 1..Len(body) : body[k] = "."}
        nums == {k \in 1..Len(body) : IsDigit(body[k])}
        dot == CHOOSE k \in dots : TRUE
        frac == IF dots = {} THEN 0 ELSE Len(body) - dot
        mag == Norm(DigitsValue(body, 0), Pow10(frac))
    IN  IF nums = {} \/ Cardinality(dots) > 1 \/ Cardinality(dots) + Cardinality(nums) # Len(body)
        THEN Raise("ValueError")
        ELSE Return(IF neg THEN Sub(I(0), mag) ELSE mag)

\* parse_float: "if not s: return 0" covers None and the empty string.
parse_float(s) ==
    IF ~s.present \/ s.text = <<>> THEN Return(I(0)) ELSE float(s.text)

\* The keyword arguments of cls(...) in from_csv, in the order Python
\* evaluates them.
FromCsvOrder ==
    <<"name", "monthly_premium", "deductible", "out_of_pocket_max", "coinsurance",
      "employer_hsa_contribution", "employee_hsa_contribution", "copay">>

NumericColumns == {FromCsvOrder[k] : k \in 2..8}

\* line[key]: KeyError when the row has no such key.
Subscript(line, key) ==
    IF key \in DOMAIN line THEN Return(line[key]) ELSE Raise("KeyError")

\* One keyword argument of from_csv: line['name'] as it is, the others
\* through parse_float.
FromCsvArg(line, key) ==
    LET cell == Subscript(line, key)
    IN  IF ~cell.ok THEN cell
        ELSE IF key = "name" THEN cell
        ELSE parse_float(cell.value)

from_csv(line) ==
    LET arg == [k \in 1..8 |-> FromCsvArg(line, FromCsvOrder[k])]
        bad == {k \in 1..8 : ~arg[k].ok}
        first == CHOOSE k \in bad : \A j \in bad : k <= j
    IN  IF bad # {} THEN Raise(arg[first].error)
        ELSE Return(Plan__init__(arg[2].value, arg[3].value, arg[4].value, arg[5].value,
                                 arg[6].value, arg[7].value, arg[8].value, arg[1].value))

\* Mutant: the range includes its end point.
range_inclusive(n) == [k \in 1..(n + 1) |-> k - 1]

\* range(n): 0, 1, ..., n-1, empty for n <= 0.
range(n) == [k \in 1..n |-> k - 1]

-----------------------------------------------------------------------------
\* Inputs.

Half == <<1, 2>>
Quarter == <<1, 4>>

\* Plans built directly with Plan(...): a grid around the branch points of
\* get_expenses (deductible below/above out_of_pocket_max, copay or none,
\* coinsurance 0, 1/2, 1), and the plan of the documented example.
GridPlans ==
    {Plan__init__(I(mp), I(d), I(o), c, I(er), I(4), I(cp), None) :
        mp \in {0, 2}, d \in {0, 4}, o \in {1, 5}, c \in {I(0), Half, I(1)},
        er \in {0, 1}, cp \in {0, 1}}

ExamplePlan == Plan__init__(I(400), I(2000), I(8000), <<1, 5>>, I(0), I(0), I(0), None)

OtherPlan == Plan__init__(I(300), I(4), I(5), Half, I(100), I(4), I(1), Str(<<"B">>))

\* The bill totals the caller passes: 0..MaxBill and those of the example.
Bills == (0..MaxBill) \cup {2000, 32000}

\* months, visits and tax_bracket of a caller; 12, 0, 0 are the defaults.
Scenarios ==
    {[medical_bills |-> 0, months |-> 12, visits |-> v, tax |-> I(0)] : v \in {0, 2}}
    \cup {[medical_bills |-> 0, months |-> 1, visits |-> v, tax |-> Quarter] : v \in {0, 2}}

\* The rows csv.DictReader yields.  Every row of one input has the header's
\* keys; a value is a str, or None where the row is short.
RowA ==
    [name |-> Str(<<"A">>), monthly_premium |-> Str(<<"2">>), deductible |-> Str(<<"3">>),
     out_of_pocket_max |-> Str(<<"5">>), coinsurance |-> Str(<<"0", ".", "5">>),
     employer_hsa_contribution |-> Str(<<"1">>),
     employee_hsa_contribution |-> Str(<<"4">>), copay |-> Str(<<"1">>)]

RowB ==
    [name |-> Str(<<"B">>), monthly_premium |-> Str(<<"1", "0">>), deductible |-> Str(<<"1">>),
     out_of_pocket_max |-> Str(<<"2">>), coinsurance |-> Str(<<"1">>),
     employer_hsa_contribution |-> Str(<<"0">>),
     employee_hsa_contribution |-> Str(<<"0">>), copay |-> Str(<<"0">>)]

BaseRows == {RowA, RowB}

\* What one numeric cell may hold: None, "", two decimal literals, and a
\* text float() rejects.
Cells == {None, Str(<<>>), Str(<<"0", ".", "2", "5">>), Str(<<"1", "2">>), Str(<<"x">>)}

VariantRows == {[RowA EXCEPT ![c] = v] : c \in NumericColumns, v \in Cells}

AllColumns == {FromCsvOrder[k] : k \in 1..8}

\* Headers: the documented eight columns, the eight with one numeric column
\* left out, and the alternate schema with the single hsa_contribution field.
Headers ==
    {AllColumns} \cup {AllColumns \ {c} : c \in NumericColumns}
    \cup {(AllColumns \ {"employer_hsa_contribution", "employee_hsa_contribution"})
          \cup {"hsa_contribution"}}

\* A row of RowA/RowB's values under header h.
Under(h, row) ==
    [c \in h |-> IF c \in DOMAIN row THEN row[c] ELSE Str(<<"1", "0", "0">>)]

\* Inputs of 0..MaxRows rows: under the full header at most one row departs
\* from the base rows; under the other headers every row is a base row.
Inputs ==
    UNION {{s \in [1..n -> BaseRows \cup VariantRows] :
               Cardinality({k \in 1..n : s[k] \notin BaseRows}) <= 1} : n \in 0..MaxRows}
    \cup UNION {{[k \in 1..n |-> Under(h, s[k])] : s \in [1..n -> BaseRows]} :
                   h \in Headers \ {AllColumns}, n \in 1..MaxRows}

\* The parsed command line.
CommandLines ==
    {[medical_bills |-> b, months |-> 12, visits |-> 0, tax |-> I(0)] :
        b \in (-1)..MaxMedicalBills}
    \cup {[medical_bills |-> b, months |-> 1, visits |-> 2, tax |-> Quarter] :
        b \in (-1)..MaxMedicalBills}

-----------------------------------------------------------------------------
\* The main program.

NoCall == [op |-> "none", plan |-> 0, total_expenses |-> I(0), result |-> I(0)]
NoCost == [plan |-> 0, total_expenses |-> I(0), result |-> I(0)]

Init ==
    /\ pc = "load"
    /\ rows \in Inputs
    /\ args \in CommandLines
    /\ plans = <<>>
    /\ series = <<>>
    /\ err = "none"
    /\ last = NoCall
    /\ prev = NoCost

\* One element of [Plan.from_csv(line) for line in reader]; an exception
\* ends the program.
LoadRow ==
    /\ pc = "load"
    /\ Len(plans) < Len(rows)
    /\ LET r == from_csv(rows[Len(plans) + 1])
       IN  IF r.ok
           THEN /\ plans' = Append(plans, r.value)
                /\ UNCHANGED <<pc, err>>
           ELSE /\ pc' = "failed"
                /\ err' = r.error
                /\ UNCHANGED plans
    /\ UNCHANGED <<rows, args, series, last, prev>>

\* The reader is exhausted: the list of plans is complete.
LoadDone ==
    /\ pc = "load"
    /\ Len(plans) = Len(rows)
    /\ pc' = "plot"
    /\ UNCHANGED <<rows, args, plans, series, err, last, prev>>

\* What plt.plot receives for plan p.
PlotArgs(p, a) ==
    [x |-> range(a.medical_bills),
     y |-> [k \in 1..Len(range(a.medical_bills)) |->
               Plan__call__(p, I(range(a.medical_bills)[k]), I(a.months), I(a.visits), a.tax)],
     label |-> p.name]

\* One iteration of "for p in plans: plt.plot(...)".
PlotPlan ==
    /\ pc = "plot"
    /\ Len(series) < Len(plans)
    /\ series' = Append(series, PlotArgs(plans[Len(series) + 1], args))
    /\ UNCHANGED <<pc, rows, args, plans, err, last, prev>>

\* After the loop: title, labels, legend, show.
Show ==
    /\ pc = "plot"
    /\ Len(series) = Len(plans)
    /\ pc' = "done"
    /\ UNCHANGED <<rows, args, plans, series, err, last, prev>>

Next == LoadRow \/ LoadDone \/ PlotPlan \/ Show

Spec == Init /\ [][Next]_vars

-----------------------------------------------------------------------------
\* The class Plan used as a library: a caller builds one or two plans and
\* evaluates their methods in any number and order, at fixed months, visits
\* and tax_bracket.  last is the latest call, prev the latest evaluation of
\* get_actual_cost or __call__ before it.

CostOps == {"get_actual_cost", "__call__"}

InitCost ==
    /\ pc = "lib"
    /\ rows = <<>>
    /\ args \in Scenarios
    /\ plans \in {<<p>> : p \in GridPlans \cup {ExamplePlan}}
                \cup {<<p, q>> : p \in {ExamplePlan, OtherPlan}, q \in {ExamplePlan, OtherPlan}}
    /\ series = <<>>
    /\ err = "none"
    /\ last = NoCall
    /\ prev = NoCost

\* Mutant: get_expenses stores the expenses it computed in the plan's
\* deductible.
ReturnedStoring(op, k, t, result) ==
    /\ last' = [op |-> op, plan |-> k, total_expenses |-> t, result |-> result]
    /\ prev' = IF last.op \in {"get_actual_cost", "__call__"}
               THEN [plan |-> last.plan, total_expenses |-> last.total_expenses,
                     result |-> last.result]
               ELSE prev
    /\ plans' = IF op = "get_expenses"
                THEN [plans EXCEPT ![k].deductible = result]
                ELSE plans
    /\ UNCHANGED <<pc, rows, args, series, err>>

\* A call returns: it becomes the latest call.  No method of Plan assigns
\* to an attribute.
Returned(op, k, t, result) ==
    /\ last' = [op |-> op, plan |-> k, total_expenses |-> t, result |-> result]
    /\ prev' = IF last.op \in CostOps
               THEN [plan |-> last.plan, total_expenses |-> last.total_expenses,
                     result |-> last.result]
               ELSE prev
    /\ UNCHANGED <<pc, rows, args, plans, series, err>>

CallGetPremium ==
    /\ pc = "lib"
    /\ \E k \in 1..Len(plans) :
          Returned("get_premium", k, I(0), get_premium(plans[k], I(args.months)))

CallGetTaxSavings ==
    /\ pc = "lib"
    /\ \E k \in 1..Len(plans) :
          Returned("get_tax_savings", k, I(0), get_tax_savings(plans[k], args.tax))

CallGetExpenses ==
    /\ pc = "lib"
    /\ \E k \in 1..Len(plans), t \in Bills :
          Returned("get_expenses", k, I(t), get_expenses(plans[k], I(t), I(args.visits)))

CallGetActualCost ==
    /\ pc = "lib"
    /\ \E k \in 1..Len(plans), t \in Bills :
          Returned("get_actual_cost", k, I(t),
                   get_actual_cost(plans[k], I(t), I(args.months), I(args.visits), args.tax))

CallPlan ==
    /\ pc = "lib"
    /\ \E k \in 1..Len(plans), t \in Bills :
          Returned("__call__", k, I(t),
                   Plan__call__(plans[k], I(t), I(args.months), I(args.visits), args.tax))

NextCost ==
    CallGetPremium \/ CallGetTaxSavings \/ CallGetExpenses \/ CallGetActualCost \/ CallPlan

SpecCost == InitCost /\ [][NextCost]_vars

-----------------------------------------------------------------------------
\* Properties of the cost model, checked under SpecCost.

NonNegative(p) ==
    /\ Le(I(0), p.monthly_premium) /\ Le(I(0), p.deductible)
    /\ Le(I(0), p.out_of_pocket_max) /\ Le(I(0), p.coinsurance)
    /\ Le(I(0), p.employer_hsa_contribution) /\ Le(I(0), p.employee_hsa_contribution)
    /\ Le(I(0), p.copay)

Min(a, b) == IF Lt(b, a) THEN b ELSE a

\* The plan of the latest call and the caller's arguments as numbers.
Callee == plans[last.plan]
Months == I(args.months)
Visits == I(args.visits)
CopayTotal == Mul(Visits, Callee.copay)

\* premium - employer_hsa_contribution - tax_savings
Offsets(p) ==
    Sub(Sub(Mul(p.monthly_premium, Months), p.employer_hsa_contribution),
        Mul(p.employee_hsa_contribution, args.tax))

\* The coinsurance formula before the clamp.
Unclamped(p, t) ==
    Add(Add(Mul(Visits, p.copay), p.deductible),
        Mul(Sub(Sub(t, Mul(Visits, p.copay)), p.deductible), p.coinsurance))

\* Steps 1-6 of the specified algorithm.
SpecifiedCost(p, t) ==
    LET copay_total == Mul(Visits, p.copay)
        expenses == IF Lt(Add(copay_total, t), p.deductible)
                    THEN Add(copay_total, t)
                    ELSE Min(Unclamped(p, t), p.out_of_pocket_max)
    IN  Add(Offsets(p), expenses)

\* C1: get_actual_cost and __call__ return exactly the value of the specified
\* algorithm, for every plan, bill total, months, visits and tax bracket.
C1_CostIsSpecifiedAlgorithm ==
    last.op \in CostOps => last.result = SpecifiedCost(Callee, last.total_expenses)

\* C1 witness: __call__ has returned from the coinsurance branch below the
\* clamp, with copays charged.
C1_Witness ==
    /\ last.op = "__call__"
    /\ CopayTotal # I(0)
    /\ Callee.coinsurance = Half
    /\ ~Lt(Add(CopayTotal, last.total_expenses), Callee.deductible)
    /\ Lt(Unclamped(Callee, last.total_expenses), Callee.out_of_pocket_max)

\* C2: for non-negative plans, bills and visits, get_expenses returns at most
\* out_of_pocket_max, in both branches.
C2_ExpensesAtMostOutOfPocketMax ==
    (last.op = "get_expenses" /\ NonNegative(Callee))
        => Le(last.result, Callee.out_of_pocket_max)

CostPair ==
    /\ last.op \in CostOps
    /\ prev.plan = last.plan
    /\ Le(prev.total_expenses, last.total_expenses)

\* C4: below the deductible the cost grows 1:1 with the bills: for t1 <= t2
\* with visits*copay + t2 < deductible, cost(t2) - cost(t1) = t2 - t1.
C4_LinearBelowDeductible ==
    (CostPair /\ Lt(Add(CopayTotal, last.total_expenses), Callee.deductible))
        => Sub(last.result, prev.result) = Sub(last.total_expenses, prev.total_expenses)

\* C4 witness: two evaluations below the deductible at different bill totals,
\* with copays charged.
C4_Witness ==
    /\ CostPair
    /\ Lt(Add(CopayTotal, last.total_expenses), Callee.deductible)
    /\ Lt(prev.total_expenses, last.total_expenses)
    /\ CopayTotal # I(0)

\* C5: once the deductible is met at t and the unclamped expenses reach
\* out_of_pocket_max, the cost at every t' >= t equals the cost at t, which is
\* premium + out_of_pocket_max - employer_hsa_contribution - tax_savings
\* (non-negative plans, coinsurance in [0,1]).
C5_ConstantAfterClamp ==
    (/\ CostPair
     /\ NonNegative(Callee)
     /\ Le(Callee.coinsurance, I(1))
     /\ ~Lt(Add(CopayTotal, prev.total_expenses), Callee.deductible)
     /\ Le(Callee.out_of_pocket_max, Unclamped(Callee, prev.total_expenses)))
        => /\ last.result = prev.result
           /\ last.result = Add(Offsets(Callee), Callee.out_of_pocket_max)

\* C5 witness: the clamp is reached at the earlier bill total with unclamped
\* expenses equal to out_of_pocket_max, and the later bill total is larger.
C5_Witness ==
    /\ CostPair
    /\ NonNegative(Callee)
    /\ Callee.coinsurance = Half
    /\ ~Lt(Add(CopayTotal, prev.total_expenses), Callee.deductible)
    /\ Callee.out_of_pocket_max = Unclamped(Callee, prev.total_expenses)
    /\ Lt(prev.total_expenses, last.total_expenses)

\* The plan of the documented example, whatever its name.
IsExample(p) == [p EXCEPT !.name = None] = ExamplePlan

\* C6: the plan 400/2000/0.20/8000 at months=12, visits=0, tax_bracket=0
\* costs 4800 at bills 0, 6800 at bills 2000 and 12800 at bills 32000, where
\* the expenses are exactly 8000.
C6_DocumentedExample ==
    (/\ last.op # "none"
     /\ IsExample(Callee)
     /\ args.months = 12 /\ args.visits = 0 /\ args.tax = I(0))
        => /\ (last.op \in CostOps /\ last.total_expenses = I(0))
                 => last.result = I(4800)
           /\ (last.op \in CostOps /\ last.total_expenses = I(2000))
                 => last.result = I(6800)
           /\ (last.op \in CostOps /\ last.total_expenses = I(32000))
                 => last.result = I(12800)
           /\ (last.op = "get_expenses" /\ last.total_expenses = I(32000))
                 => last.result = I(8000)

\* C6 witness: the example plan has been evaluated at 32000 after an
\* evaluation at 2000, with the default arguments.
C6_Witness ==
    /\ last.op = "get_actual_cost"
    /\ IsExample(Callee)
    /\ args.months = 12 /\ args.visits = 0 /\ args.tax = I(0)
    /\ last.total_expenses = I(32000)
    /\ prev.plan = last.plan
    /\ prev.total_expenses = I(2000)

\* C8: no call of get_premium, get_tax_savings, get_expenses, get_actual_cost
\* or __call__ changes an attribute of any plan, and evaluating a plan's cost
\* again at the same arguments gives the same value whatever was called in
\* between.
C8_PlansNeverMutated ==
    /\ [][plans' = plans]_vars
    /\ []((CostPair /\ prev.total_expenses = last.total_expenses)
            => last.result = prev.result)

\* C8 witness: with two plans built, the cost of the second plan has been
\* evaluated twice at one bill total with a call on the first plan in between.
C8_Witness ==
    /\ Len(plans) = 2
    /\ plans[1] # plans[2]
    /\ last.op = "get_expenses"
    /\ last.plan = 1
    /\ prev.plan = 2

\* C10: for non-negative plans with coinsurance in [0,1] the cost never
\* decreases when the bills increase: t1 <= t2 implies cost(t1) <= cost(t2).
C10_CostMonotoneInBills ==
    (CostPair /\ NonNegative(Callee) /\ Le(Callee.coinsurance, I(1)))
        => Le(prev.result, last.result)

-----------------------------------------------------------------------------
\* Properties of from_csv and of the main loop, checked under Spec.

\* A numeric field is absent from a row: no such key, None, or "".
Absent(line, c) == c \notin DOMAIN line \/ ~line[c].present \/ line[c].text = <<>>

\* The rows from_csv has been called on: those that became plans and, after
\* a failure, the row that raised.
Attempted == 1..(Len(plans) + (IF pc = "failed" THEN 1 ELSE 0))

\* C7: from_csv sets every absent numeric field to 0 without failing (it can
\* fail only on a present value that is no number), and every present field
\* keeps its parsed value.
C7_AbsentFieldsDefaultToZero ==
    \A k \in Attempted :
        /\ (\A c \in NumericColumns : Absent(rows[k], c) \/ float(rows[k][c].text).ok)
              => k <= Len(plans)
        /\ k <= Len(plans) =>
              \A c \in NumericColumns :
                  plans[k][c] = IF Absent(rows[k], c) THEN I(0)
                                ELSE float(rows[k][c].text).value

Max(a, b) == IF a < b THEN b ELSE a

\* C9: the main loop hands over one series per row, in row order, labelled
\* with the row's name, whose x values are 0..medical_bills-1 ascending
\* (none for medical_bills <= 0) and whose y value at x = c is the plan's
\* get_actual_cost(c, months, visits, tax).
C9_OneSeriesPerRow ==
    /\ pc = "done" => Len(series) = Len(rows)
    /\ Len(series) <= Len(rows)
    /\ \A k \in 1..Len(series) :
          LET s == series[k]
              p == from_csv(rows[k]).value
          IN  /\ s.label = rows[k]["name"]
              /\ Len(s.x) = Max(args.medical_bills, 0)
              /\ Len(s.y) = Len(s.x)
              /\ \A j \in 1..Len(s.x) :
                    /\ s.x[j] = j - 1
                    /\ s.y[j] = get_actual_cost(p, I(j - 1), I(args.months),
                                                I(args.visits), args.tax)

\* C9 witness: the program has finished after plotting two differently named
\* plans over a non-empty range with non-default months, visits and tax.
C9_Witness ==
    /\ pc = "done"
    /\ Len(series) = 2
    /\ series[1].label # series[2].label
    /\ args.medical_bills >= 2
    /\ args.visits = 2

====
